---- MODULE Spec2Model ----
(***************************************************************************)
(* State-machine model of modules/sfp_template.py (class sfp_template):    *)
(* the class-level option dictionary, the per-instance Seen-Set (results)  *)
(* and breaker (errorState), setup(), query() and handleEvent().           *)
(*                                                                         *)
(* Strings are modelled by what the code does with them: a payload is a    *)
(* record [k, a, p] standing for the text of an address ("ip"), of a CIDR  *)
(* range ("net") or of anything else ("str"); IPNetwork() parses it and    *)
(* str(ipaddr) formats an address.  Addresses are offsets inside one block *)
(* of 2^HostBits IPv4 addresses, prefix lengths keep their IPv4 values.    *)
(*                                                                         *)
(* The file binds only the three names of its import line.  handleEvent    *)
(* and query also read the free names IPNetwork, qrylist and json, which   *)
(* the file never binds: the variable namespace holds the names the module *)
(* can resolve, either exactly those of the file (every read of a free     *)
(* name raises NameError) or those plus the three free names (IPNetwork    *)
(* and json the library objects, qrylist an empty list when the key set of *)
(* a call is built).                                                       *)
(***************************************************************************)
EXTENDS Integers, Sequences, FiniteSets, TLC

VARIABLES namespace, opts, sf, results, errorState, stopRequested,
          errLogged, queried, qcalls, last, ncalls, nsetups

vars == <<namespace, opts, sf, results, errorState, stopRequested,
          errLogged, queried, qcalls, last, ncalls, nsetups>>

\* ------------------------------------------------------------------ bounds
\* The modelled address block holds 2^HostBits addresses.
HostBits == 2
\* handleEvent calls in one behaviour.
MaxCalls == 2
\* setup calls in one behaviour.
MaxSetups == 2

\* --------------------------------------------------------------- constants
\* Bits of an IPv4 address: IPNetwork(...).prefixlen ranges over 0..AddrWidth.
AddrWidth == 32
\* opts['maxnetblock'] as the class declares it.
DefaultMaxNetblock == 24

Instances == {"A", "B"}

\* ----------------------------------------------------------------- strings
\* Addresses of the modelled block, as offsets.
Addrs == 0..(2^HostBits - 1)

\* The text of an address, of a CIDR range, of anything that is neither.
IpStr(a) == [k |-> "ip", a |-> a, p |-> AddrWidth]
NetStr(a, p) == [k |-> "net", a |-> a, p |-> p]
OtherStr == [k |-> "str", a |-> 0, p |-> 0]

\* Number of addresses of a network of prefix length p.
NetSize(p) == 2^(AddrWidth - p)

\* Prefix lengths of the ranges of at least two addresses inside the block.
Prefixes == (AddrWidth - HostBits)..(AddrWidth - 1)

\* Payloads handed to the handler: the addresses, the ranges (written with
\* their first address before the slash), one string that is neither.
AddrData == {IpStr(a) : a \in Addrs}
NetData == UNION {{NetStr(a, p) : a \in {b \in Addrs : b % NetSize(p) = 0}} : p \in Prefixes}
Data == AddrData \cup NetData \cup {OtherStr}

\* ------------------------------------------------------- module namespace
\* Names bound by the import line of the file.
ImportedNames == {"SpiderFoot", "SpiderFootPlugin", "SpiderFootEvent"}
\* Names handleEvent and query read that the file never binds.
FreeNames == {"IPNetwork", "qrylist", "json"}

\* ------------------------------------------------------------------- opts
\* The class attribute opts (the options handleEvent and query read).
DefaultOpts ==
    [api_key |-> "", netblocklookup |-> TRUE, maxnetblock |-> DefaultMaxNetblock]

\* userOpts dictionaries handed to setup: the orchestrator's global options
\* (here _fetchtimeout, which query reads) and overrides of the module's own.
UserOpts ==
    { [_fetchtimeout |-> "t"],
      [_fetchtimeout |-> "t", api_key |-> "K"],
      [_fetchtimeout |-> "t", api_key |-> "K", netblocklookup |-> FALSE],
      [_fetchtimeout |-> "t", api_key |-> "K", maxnetblock |-> AddrWidth - 1] }

\* for opt in list(userOpts.keys()): self.opts[opt] = userOpts[opt]
MergeOpts(o, u) ==
    [n \in (DOMAIN o) \cup (DOMAIN u) |-> IF n \in DOMAIN u THEN u[n] ELSE o[n]]

\* ------------------------------------------------------------ event types
watchedEvents == {"IP_ADDRESS", "NETBLOCK_OWNER", "DOMAIN_NAME", "WEB_ANALYTICS_ID"}

producedEvents ==
    {"OPERATING_SYSTEM", "DEVICE_TYPE", "TCP_PORT_OPEN", "TCP_PORT_OPEN_BANNER",
     "RAW_RIR_DATA", "GEOINFO", "VULNERABILITY"}

\* eventName.startswith("NETBLOCK_")
StartsWithNetblock(t) == t \in {"NETBLOCK_OWNER", "NETBLOCK_MEMBER"}

\* Events handed to the handler: watched and unwatched types, ranges that
\* overlap each other and the addresses, and pairs of events of different
\* types that carry identical data.
Events ==
    [eventType : {"IP_ADDRESS"}, data : {IpStr(0), IpStr(2^HostBits - 1)}]
      \cup [eventType : {"NETBLOCK_OWNER"},
            data : {NetStr(0, AddrWidth - HostBits), NetStr(0, AddrWidth - 1), OtherStr}]
      \cup [eventType : {"NETBLOCK_MEMBER"}, data : {NetStr(0, AddrWidth - 1)}]
      \cup [eventType : {"DOMAIN_NAME", "INTERNET_NAME"}, data : {OtherStr}]

\* Instances the orchestrator dispatches events to (every instance is set up).
Dispatched == {"A"}

\* -------------------------------------------------------------- IPNetwork
\* IPNetwork(s) raises AddrFormatError unless s is an address or a range.
Parsable(d) == d.k \in {"ip", "net"}

\* IPNetwork(s).prefixlen; a bare address is a network of one address.
PrefixLen(d) == IF d.k = "ip" THEN AddrWidth ELSE d.p

\* First address of IPNetwork(s): the host bits of the written address cleared.
NetBase(d) == d.a - (d.a % NetSize(PrefixLen(d)))

\* [str(ipaddr) for ipaddr in IPNetwork(s)]: every address, ascending.
Expand(d) == [n \in 1..NetSize(PrefixLen(d)) |-> IpStr(NetBase(d) + n - 1)]

\* ------------------------------------------------------------------ query
\* What fetchUrl returns for a key: no content, content that is not JSON, a
\* JSON record without 'os', a JSON record with 'os'.
Contents == {"none", "garbage", "json", "json_os"}

\* Behaviours of the external source during one call of handleEvent: an 'os'
\* record for every key, or an answer that depends on the key.
Profiles == {"all_os", "mixed"}

fetchUrl(profile, key) ==
    IF profile = "all_os" THEN "json_os"
    ELSE IF key.a % 4 = 0 THEN "json"
    ELSE IF key.a % 4 = 1 THEN "none"
    ELSE IF key.a % 4 = 2 THEN "json_os"
    ELSE "garbage"

\* query(qry): None, or the decoded record ("rec" without 'os', "os" with).
\* json.loads runs inside try/except Exception, so an unbound json is caught
\* like undecodable content.
query(ns, profile, qry) ==
    LET content == fetchUrl(profile, qry)
    IN IF content = "none" THEN "None"
       ELSE IF "json" \notin ns \/ content = "garbage" THEN "None"
       ELSE IF content = "json_os" THEN "os"
       ELSE "rec"

\* ------------------------------------------------------------ handleEvent
\* An emitted event: its type, the key it is about, and its source event:
\* parent 0 is the event being handled, parent n > 0 the n-th event this same
\* call emitted before.
Emit(t, key, parent) == [eventType |-> t, data |-> key, parent |-> parent]

\* self.checkForStop() in the iteration of the n-th key, when the stop request
\* arrives after stopAfter keys have been worked through.
checkForStop(n, stopAfter) == n > stopAfter

\* The evidence is linked to the event being handled, not to pevent.
peventAlwaysEvent(isNet, e1) == 0

\* Lines 232-249: the source event of what a key yields, given the events
\* emitted so far (e1).  For a range it is the IP_ADDRESS event just emitted,
\* otherwise the event being handled.
peventOf(isNet, e1) == IF isNet THEN Len(e1) ELSE 0

\* A key without a record ends the loop.
NoRecordBreaks(n, qrylist) == Len(qrylist) + 1

\* Lines 226-227: if rec is None: continue.  The index of the key the loop
\* takes up after the n-th key gave no record.
NextAfterNoRecord(n, qrylist) == n + 1

\* Lines 220-273: the loop over qrylist from its n-th key on.  acc holds what
\* the call has emitted and queried so far.
RECURSIVE QueryLoop(_, _, _, _, _, _, _)
QueryLoop(ns, ev, qrylist, n, profile, stopAfter, acc) ==
    IF n > Len(qrylist) THEN acc
    ELSE
      LET addr == qrylist[n]
          rec == query(ns, profile, addr)
          asked == [acc EXCEPT !.queries = Append(@, addr)]
      IN IF rec = "None"
         THEN QueryLoop(ns, ev, qrylist, NextAfterNoRecord(n, qrylist), profile,
                        stopAfter, asked)
         ELSE
           LET isNet == StartsWithNetblock(ev.eventType)
               e1 == IF isNet
                     THEN Append(acc.emitted, Emit("IP_ADDRESS", addr, 0))
                     ELSE acc.emitted
               pevent == peventOf(isNet, e1)
               e2 == Append(e1, Emit("RAW_RIR_DATA", addr, pevent))
               e3 == IF rec = "os"
                     THEN Append(e2, Emit("OPERATING_SYSTEM", addr, pevent))
                     ELSE e2
           IN IF checkForStop(n, stopAfter)
              THEN [asked EXCEPT !.emitted = e2, !.stopped = TRUE]
              ELSE QueryLoop(ns, ev, qrylist, n + 1, profile, stopAfter,
                             [asked EXCEPT !.emitted = e3])

\* The outcome of a call that leaves the instance as it found it.
Outcome(res, es) ==
    [results |-> res, errorState |-> es, logged |-> FALSE, gate |-> "none",
     emitted |-> <<>>, queries |-> <<>>, stopped |-> FALSE, raised |-> "none"]

\* The breaker is never consulted.
BreakerGateIgnored(es) == FALSE

\* Line 176: if self.errorState: return None
BreakerGate(es) == es

\* The test of the credential the other way round.
CredentialGateInverted(o) == o.api_key # ""

\* The credential is never tested.
CredentialGateIgnored(o) == FALSE

\* Line 185: if self.opts['api_key'] == "":
CredentialGate(o) == o.api_key = ""

\* The credential gate returns without setting the breaker.
TripBreakerForgotten(es) == es

\* Line 187: self.errorState = True
TripBreaker(es) == TRUE

\* The Seen-Set is never consulted.
DedupGateIgnored(res, ev) == FALSE

\* Line 191: if eventData in self.results:
DedupGate(res, ev) == ev.data \in res

\* No range is ever too big.
TooBigNever(o, d) == FALSE

\* The comparison of the admission policy the other way round.
TooBigReversed(o, d) == PrefixLen(d) > o.maxnetblock

\* Line 204: IPNetwork(eventData).prefixlen < self.opts['maxnetblock']
TooBig(o, d) == PrefixLen(d) < o.maxnetblock

\* Lines 199-208: the admission policy for NETBLOCK_OWNER.  "pass" goes on to
\* the key set, "return" is return None, anything else is the exception raised.
Admission(ns, o, ev) ==
    IF ev.eventType # "NETBLOCK_OWNER" THEN "pass"
    ELSE IF ~o.netblocklookup THEN "return"
    ELSE IF "IPNetwork" \notin ns THEN "NameError"
    ELSE IF ~Parsable(ev.data) THEN "AddrFormatError"
    ELSE IF TooBig(o, ev.data) THEN "return"
    ELSE "pass"

\* Lines 213-218: the key set.  ok is FALSE when building it raises.
KeySet(ns, ev) ==
    IF StartsWithNetblock(ev.eventType)
    THEN IF "IPNetwork" \notin ns THEN [ok |-> FALSE, raised |-> "NameError", keys |-> <<>>]
         ELSE IF ~Parsable(ev.data)
              THEN [ok |-> FALSE, raised |-> "AddrFormatError", keys |-> <<>>]
         ELSE IF "qrylist" \notin ns
              THEN [ok |-> FALSE, raised |-> "NameError", keys |-> <<>>]
         ELSE [ok |-> TRUE, raised |-> "none", keys |-> Expand(ev.data)]
    ELSE IF "qrylist" \notin ns THEN [ok |-> FALSE, raised |-> "NameError", keys |-> <<>>]
         ELSE [ok |-> TRUE, raised |-> "none", keys |-> <<ev.data>>]

\* The addresses of the range are left unmarked.
MarkAllForgotten(res, keys) == res

\* self.results[str(ipaddr)] = True for every address of the range.
MarkAll(res, keys) == res \cup {keys[n] : n \in DOMAIN keys}

\* handleEvent(event) on an instance whose Seen-Set is res and breaker es,
\* with the module namespace ns and the options o.
handleEvent(ns, o, res, es, ev, profile, stopAfter) ==
    IF BreakerGate(es) THEN [Outcome(res, es) EXCEPT !.gate = "breaker"]
    ELSE IF CredentialGate(o)
         THEN [Outcome(res, TripBreaker(es)) EXCEPT !.logged = TRUE, !.gate = "credential"]
    ELSE IF DedupGate(res, ev) THEN [Outcome(res, es) EXCEPT !.gate = "dedup"]
    ELSE
      LET marked == res \cup {ev.data}
          adm == Admission(ns, o, ev)
          ks == KeySet(ns, ev)
      IN IF adm = "return" THEN [Outcome(marked, es) EXCEPT !.gate = "admission"]
         ELSE IF adm # "pass" THEN [Outcome(marked, es) EXCEPT !.raised = adm]
         ELSE IF ~ks.ok THEN [Outcome(marked, es) EXCEPT !.raised = ks.raised]
         ELSE QueryLoop(ns, ev, ks.keys, 1, profile, stopAfter,
                        [Outcome(MarkAll(marked, ks.keys), es) EXCEPT !.gate = "loop"])

\* ---------------------------------------------------------- state machine
\* No call of handleEvent yet.
NoCall ==
    [inst |-> "none", event |-> [eventType |-> "none", data |-> OtherStr],
     tripped |-> FALSE, opts |-> DefaultOpts, pre |-> {}, stopBefore |-> FALSE,
     stopAfter |-> 0, nkeys |-> 0, profile |-> "all_os", answers |-> <<>>,
     out |-> Outcome({}, FALSE)]

ZeroCount == [d \in Data |-> 0]

\* The class as loaded and its instances as constructed: opts is the class
\* attribute, results and errorState the class defaults.
Init ==
    /\ namespace \in {ImportedNames, ImportedNames \cup FreeNames}
    /\ opts = DefaultOpts
    /\ sf = [i \in Instances |-> FALSE]
    /\ results = [i \in Instances |-> {}]
    /\ errorState = [i \in Instances |-> FALSE]
    /\ stopRequested = FALSE
    /\ errLogged = [i \in Instances |-> 0]
    /\ queried = [i \in Instances |-> ZeroCount]
    /\ qcalls = [i \in Instances |-> ZeroCount]
    /\ last = NoCall
    /\ ncalls = 0
    /\ nsetups = 0

\* setup also puts the breaker of the instance back to the class default.
setupClearsBreaker(i, userOpts) ==
    /\ nsetups < MaxSetups
    /\ nsetups' = nsetups + 1
    /\ sf' = [sf EXCEPT ![i] = TRUE]
    /\ results' = [results EXCEPT ![i] = {}]
    /\ opts' = MergeOpts(opts, userOpts)
    /\ queried' = [queried EXCEPT ![i] = ZeroCount]
    /\ qcalls' = [qcalls EXCEPT ![i] = ZeroCount]
    /\ errorState' = [errorState EXCEPT ![i] = FALSE]
    /\ UNCHANGED <<namespace, stopRequested, errLogged, last, ncalls>>

\* setup(sfc, userOpts) on instance i: a fresh Seen-Set for the instance, the
\* overrides written into the opts dictionary of the class.  queried and
\* qcalls count per run, and the run of i starts here.
setup(i, userOpts) ==
    /\ nsetups < MaxSetups
    /\ nsetups' = nsetups + 1
    /\ sf' = [sf EXCEPT ![i] = TRUE]
    /\ results' = [results EXCEPT ![i] = {}]
    /\ opts' = MergeOpts(opts, userOpts)
    /\ queried' = [queried EXCEPT ![i] = ZeroCount]
    /\ qcalls' = [qcalls EXCEPT ![i] = ZeroCount]
    /\ UNCHANGED <<namespace, errorState, stopRequested, errLogged, last, ncalls>>

\* The orchestrator's stop request (what checkForStop reads) is set.
RequestStop ==
    /\ ~stopRequested
    /\ stopRequested' = TRUE
    /\ UNCHANGED <<namespace, opts, sf, results, errorState, errLogged, queried,
                   qcalls, last, ncalls, nsetups>>

\* Number of times key occurs in the sequence q.
Occurrences(q, key) == Cardinality({n \in DOMAIN q : q[n] = key})

\* Keys the call works through when no stop is requested.
KeyCount(ns, o, res, es, ev, profile) ==
    Len(handleEvent(ns, o, res, es, ev, profile, NetSize(AddrWidth - HostBits)).queries)

\* One call of handleEvent(event) on instance i, from entry to return or
\* raise.  The source answers by profile.  The stop request is already set,
\* or arrives after stopAfter keys of this call have been worked through
\* (stopAfter = the number of keys: not during this call).
HandleEvent(i, ev, profile) ==
    /\ sf[i]
    /\ ncalls < MaxCalls
    /\ \E nk \in {KeyCount(namespace, opts, results[i], errorState[i], ev, profile)} :
       \E stopAfter \in (IF stopRequested THEN {0} ELSE 0..nk) :
       \E out \in {handleEvent(namespace, opts, results[i], errorState[i], ev,
                               profile, stopAfter)} :
         /\ ncalls' = ncalls + 1
         /\ results' = [results EXCEPT ![i] = out.results]
         /\ errorState' = [errorState EXCEPT ![i] = out.errorState]
         /\ errLogged' = [errLogged EXCEPT ![i] = @ + (IF out.logged THEN 1 ELSE 0)]
         /\ stopRequested' = (stopRequested \/ stopAfter < nk)
         /\ queried' = [queried EXCEPT ![i] =
                          [d \in Data |-> @[d] + Occurrences(out.queries, d)]]
         /\ qcalls' = [qcalls EXCEPT ![i][ev.data] =
                          @ + (IF out.queries # <<>> THEN 1 ELSE 0)]
         /\ last' = [inst |-> i, event |-> ev, tripped |-> errorState[i],
                     opts |-> opts, pre |-> results[i],
                     stopBefore |-> stopRequested, stopAfter |-> stopAfter,
                     nkeys |-> nk, profile |-> profile,
                     answers |-> [n \in DOMAIN out.queries |->
                                    query(namespace, profile, out.queries[n])],
                     out |-> out]
    /\ UNCHANGED <<namespace, opts, sf, nsetups>>

Next ==
    \/ \E i \in Instances, u \in UserOpts : setup(i, u)
    \/ RequestStop
    \/ \E i \in Dispatched, ev \in Events, profile \in Profiles :
         HandleEvent(i, ev, profile)

Spec == Init /\ [][Next]_vars

\* ----------------------------------------------------------------- claims
\* A call of handleEvent has been made; last describes the latest one.
Called == last.inst # "none"

\* The latest call emitted nothing, queried nothing and left the Seen-Set of
\* its instance as it found it.
LastSilent ==
    /\ last.out.emitted = <<>>
    /\ last.out.queries = <<>>
    /\ last.out.results = last.pre

\* C1: once errorState is set, a call of handleEvent, whatever the event and
\* whatever the credential, emits no event, makes no query and leaves the
\* Seen-Set unchanged.
C1_TrippedBreakerSilences == (Called /\ last.tripped) => LastSilent

\* C1 witness: a call on a tripped instance with a credential now present and
\* an event whose data the instance has not seen.
C1_Witness ==
    /\ Called
    /\ last.tripped
    /\ last.opts.api_key # ""
    /\ last.event.data \notin last.pre
    /\ last.event.eventType \in watchedEvents

C4_UnwatchedIgnored ==
    (Called /\ last.event.eventType \notin watchedEvents) =>
        (last.out.emitted = <<>> /\ last.out.results = last.pre)

EmittedAbout(t, key) ==
    {m \in DOMAIN last.out.emitted :
        last.out.emitted[m].eventType = t /\ last.out.emitted[m].data = key}

\* In the latest call, the event emitted m-th has as its source an IP_ADDRESS
\* event for key whose own source is the event handled.
ParentIsAddressOf(m, key) ==
    LET p == last.out.emitted[m].parent
    IN /\ p \in DOMAIN last.out.emitted
       /\ last.out.emitted[p] = Emit("IP_ADDRESS", key, 0)

FreshAdmittedRange ==
    /\ Called
    /\ last.event.eventType = "NETBLOCK_OWNER"
    /\ Parsable(last.event.data)
    /\ ~last.tripped
    /\ last.opts.api_key # ""
    /\ last.opts.netblocklookup
    /\ PrefixLen(last.event.data) >= last.opts.maxnetblock
    /\ last.event.data \notin last.pre
    /\ ~last.stopBefore
    /\ last.stopAfter = last.nkeys
    /\ last.profile = "all_os"

\* C7 (as claimed): such a call emits, for a range of N addresses, exactly 3N
\* events: for each address an IP_ADDRESS event whose source is the range
\* event, and a RAW_RIR_DATA and an OPERATING_SYSTEM event whose source is
\* that IP_ADDRESS event.
C7_FreshRangeEmitsThreePerAddress ==
    FreshAdmittedRange =>
        /\ Len(last.out.emitted) = 3 * NetSize(PrefixLen(last.event.data))
        /\ \A n \in DOMAIN Expand(last.event.data) :
             LET key == Expand(last.event.data)[n]
             IN /\ Cardinality(EmittedAbout("IP_ADDRESS", key)) = 1
                /\ \A m \in EmittedAbout("IP_ADDRESS", key) :
                       last.out.emitted[m].parent = 0
                /\ Cardinality(EmittedAbout("RAW_RIR_DATA", key)) = 1
                /\ \A m \in EmittedAbout("RAW_RIR_DATA", key) : ParentIsAddressOf(m, key)
                /\ Cardinality(EmittedAbout("OPERATING_SYSTEM", key)) = 1
                /\ \A m \in EmittedAbout("OPERATING_SYSTEM", key) : ParentIsAddressOf(m, key)

C9_CredentialErrorLoggedOnce ==
    /\ \A i \in Instances : errLogged[i] = (IF errorState[i] THEN 1 ELSE 0)
    /\ (Called /\ last.opts.api_key = "") =>
          (last.out.emitted = <<>> /\ last.out.queries = <<>> /\ errorState[last.inst])

\* C9 witness: the error has been logged, and the bound on calls has been
\* used up on an instance whose breaker was set, its credential still empty.
C9_Witness ==
    /\ Called
    /\ last.tripped
    /\ last.opts.api_key = ""
    /\ last.event.eventType \in watchedEvents
    /\ errLogged[last.inst] = 1
    /\ ncalls = MaxCalls

\* C10 (as claimed): a NETBLOCK_* event whose data is no range notation is
\* discarded: the call emits nothing, makes no query and raises nothing.
C10_MalformedRangeDiscarded ==
    (Called /\ StartsWithNetblock(last.event.eventType) /\ ~Parsable(last.event.data)) =>
        (last.out.emitted = <<>> /\ last.out.queries = <<>> /\ last.out.raised = "none")

\* self.opts as instance i reads it: no instance ever assigns self.opts, so
\* the attribute resolves to the one dictionary of the class.
optsOf(i) == opts

\* C11 (as claimed): a setup call or a handleEvent call on one instance
\* changes neither the options nor the Seen-Set that another instance
\* observes.
C11_InstancesShareNothing ==
    [][\A i \in Instances : \A j \in Instances \ {i} :
          ((\E u \in UserOpts : setup(i, u))
             \/ (\E ev \in Events, profile \in Profiles : HandleEvent(i, ev, profile)))
          => (optsOf(j)' = optsOf(j) /\ results'[j] = results[j])]_vars

\* C12: errorState of every instance starts false, and no step takes it from
\* true back to false.
C12_BreakerMonotonic ==
    /\ \A i \in Instances : ~errorState[i]
    /\ [][\A i \in Instances : errorState[i] => errorState'[i]]_vars

\* C12 witness: the breaker of an instance is still set after a later setup
\* gave the class a credential and a further call was made on the instance.
C12_Witness ==
    /\ errorState["A"]
    /\ opts.api_key # ""
    /\ nsetups = MaxSetups
    /\ ncalls = MaxCalls
    /\ last.tripped

\* Events of the latest call, of any type, that are about key.
EmittedForKey(key) ==
    {m \in DOMAIN last.out.emitted : last.out.emitted[m].data = key}

\* The key set of the latest call, as lines 213-218 build it from the event.
KeysOfLast ==
    IF StartsWithNetblock(last.event.eventType)
    THEN Expand(last.event.data)
    ELSE <<last.event.data>>

RangeAddrs == {Expand(last.event.data)[n] : n \in DOMAIN Expand(last.event.data)}

C19_EarlyGatesLeaveSeenSet ==
    (Called /\ (last.tripped \/ last.opts.api_key = "")) =>
        (last.out.results = last.pre /\ results[last.inst] = last.pre)

\* C19 witness: a call stopped at the credential gate whose event data was
\* not in the Seen-Set, and still is not.
C19_Witness ==
    /\ Called
    /\ ~last.tripped
    /\ last.out.gate = "credential"
    /\ last.event.data \notin last.pre
    /\ last.event.data \notin results[last.inst]

\* The admission check of lines 199-208 rejects the latest event.
RejectedByAdmission ==
    /\ last.event.eventType = "NETBLOCK_OWNER"
    /\ Parsable(last.event.data)
    /\ (~last.opts.netblocklookup
          \/ PrefixLen(last.event.data) < last.opts.maxnetblock)

\* C20: a NETBLOCK_OWNER event that passes the dedup gate and is rejected
\* by the admission check adds its data, and nothing else, to the Seen-Set
\* and yields no query and no event; the same event again stops at the dedup gate.
C20_RejectedRangeStillMarked ==
    (Called /\ ~last.tripped /\ last.opts.api_key # "" /\ RejectedByAdmission) =>
        /\ last.out.emitted = <<>>
        /\ last.out.queries = <<>>
        /\ last.event.data \in last.pre => last.out.gate = "dedup"
        /\ last.event.data \notin last.pre =>
              (last.out.gate \notin {"dedup", "loop"}
                 /\ last.out.results = last.pre \cup {last.event.data})

\* C20 witness: the second of two identical rejected NETBLOCK_OWNER events
\* is dropped as a duplicate while no address of the range is in the Seen-Set.
C20_Witness ==
    /\ Called
    /\ RejectedByAdmission
    /\ last.opts.netblocklookup
    /\ last.out.gate = "dedup"
    /\ results[last.inst] = {last.event.data}
    /\ RangeAddrs \cap results[last.inst] = {}
    /\ \A d \in Data : queried[last.inst][d] = 0

====
